---------------------------- MODULE Spec2Model ----------------------------
(***************************************************************************)
(* Model of scripts/ilapfuncs.py (DLEAPP): the mis-encoded UTF-8 recovery  *)
(* decoder utf8_in_extended_ascii and the streaming hash extractor         *)
(* gather_hashes_in_file.                                                  *)
(*                                                                         *)
(* Characters are code points (integers).  A Python str is a sequence of   *)
(* code points; the list `output` is a sequence of strs.                   *)
(***************************************************************************)
EXTENDS Integers, Sequences, FiniteSets, TLC

VARIABLES
    \* ---- utf8_in_extended_ascii: arguments and locals
    input_string,               \* the str passed in
    raise_on_unexpected,        \* keyword argument
    idx,                        \* number of characters already enumerated
    output,                     \* list of strs, joined at the end
    is_in_multibyte,
    multibytes_expected,
    multibyte_buffer,           \* list of characters
    mis_encoded_utf8_present,
    pc,                         \* "loop", "done" (returned), "raised", "idle"
    error,                      \* the exception that left the call, if any
    \* ---- gather_hashes_in_file: arguments, locals and sinks
    file_found,                 \* the file's content
    factor,
    i,                          \* index of the next line to enumerate
    target_hashes,              \* dict: key -> record
    progress_args,              \* arguments of the SetProgressBar calls made
    log_lines,                  \* keys announced through logfunc
    ext_pc,                     \* "start", "loop", "returned", "raised", "idle"
    ext_error                   \* the exception that left the call, if any

dec_vars == <<input_string, raise_on_unexpected, idx, output, is_in_multibyte,
              multibytes_expected, multibyte_buffer, mis_encoded_utf8_present,
              pc, error>>

ext_vars == <<file_found, factor, i, target_hashes, progress_args, log_lines,
              ext_pc, ext_error>>

vars == <<dec_vars, ext_vars>>

(***************************************************************************)
(* Bounds of the model.                                                    *)
(***************************************************************************)
MaxLen == 4          \* longest decoder input

\* Code points the decoder inputs are drawn from: ASCII (with the 0x7F
\* boundary), continuation bytes, lead bytes of 2, 3 and 4 byte sequences
\* (0xC0 is a lead byte no valid sequence starts with), and one above 0xF4.
Alphabet == {65, 127, 128, 169, 192, 195, 226, 244, 255}

SeqsUpTo(S, n) == UNION {[1..k -> S] : k \in 0..n}

Min(a, b) == IF a < b THEN a ELSE b
Max(a, b) == IF a > b THEN a ELSE b

(***************************************************************************)
(* utf8_in_extended_ascii                                                  *)
(***************************************************************************)

\* code_point & 0x80 and code_point & 0xc0 on a non-negative integer
And0x80(code_point) == ((code_point \div 128) % 2) * 128
And0xc0(code_point) == ((code_point \div 64) % 4) * 64

\* line 382: ASCII range data or higher than mis-encoded utf-8 can be
IsPlainOffByOne(code_point) == code_point < 127 \/ code_point > 244
IsPlain(code_point) == code_point <= 127 \/ code_point > 244

\* line 388
IsContinuation(code_point) == And0xc0(code_point) = 128

\* lines 397-399: the while loop counting the leading 1 bits of the start
\* byte; code_point <<= 1 on an unbounded Python int
RECURSIVE CountLeadingOnes(_, _)
CountLeadingOnes(code_point, n) ==
    IF And0x80(code_point) # 0
    THEN CountLeadingOnes(code_point * 2, n + 1)
    ELSE n

\* line 406: bytes(ord(x) for x in multibyte_buffer).decode("utf-8").
\* The buffer holds a start byte in 0xC0..0xF4 followed by continuation
\* bytes, as many bytes as the start byte has leading 1 bits.  The strict
\* UTF-8 codec rejects overlong forms, surrogates and values above
\* U+10FFFF; -1 stands for the UnicodeDecodeError it raises.
DecodeError == -1
Low6(b) == b - 128
DecodeUtf8(buf) ==
    LET b1 == buf[1] IN
    CASE Len(buf) = 2 ->
            IF b1 < 194 THEN DecodeError
            ELSE (b1 - 192) * 64 + Low6(buf[2])
      [] Len(buf) = 3 ->
            IF \/ (b1 = 224 /\ buf[2] < 160)
               \/ (b1 = 237 /\ buf[2] > 159)
            THEN DecodeError
            ELSE (b1 - 224) * 4096 + Low6(buf[2]) * 64 + Low6(buf[3])
      [] Len(buf) = 4 ->
            IF \/ (b1 = 240 /\ buf[2] < 144)
               \/ (b1 = 244 /\ buf[2] > 143)
            THEN DecodeError
            ELSE (b1 - 240) * 262144 + Low6(buf[2]) * 4096
                 + Low6(buf[3]) * 64 + Low6(buf[4])
      [] OTHER -> DecodeError

NoError == [type |-> "none", index |-> 0]

\* The locals of one call, as a record
Locals ==
    [output |-> output,
     is_in_multibyte |-> is_in_multibyte,
     multibytes_expected |-> multibytes_expected,
     multibyte_buffer |-> multibyte_buffer,
     mis_encoded_utf8_present |-> mis_encoded_utf8_present,
     error |-> error]

\* a list of characters as a list of one-character strs
AsItems(chars) == [k \in 1..Len(chars) |-> <<chars[k]>>]

\* lines 368-378: handle_bad_data(index, character); character is a str
HandleBadDataDropsCharacter(st, index, character) ==
    IF ~raise_on_unexpected
    THEN [st EXCEPT !.output = st.output \o AsItems(st.multibyte_buffer),
                    !.multibyte_buffer = <<>>,
                    !.is_in_multibyte = FALSE,
                    !.multibytes_expected = 0]
    ELSE [st EXCEPT !.error = [type |-> "ValueError", index |-> index]]

HandleBadDataRestartsOnLead(st, index, character) ==
    IF ~raise_on_unexpected
    THEN IF character # <<>> /\ ~IsPlain(character[1])
                             /\ ~IsContinuation(character[1])
         THEN [st EXCEPT !.output = st.output \o AsItems(st.multibyte_buffer),
                         !.multibyte_buffer = character,
                         !.is_in_multibyte = TRUE,
                         !.multibytes_expected = CountLeadingOnes(character[1], 0)]
         ELSE [st EXCEPT !.output = Append(st.output \o AsItems(st.multibyte_buffer),
                                           character),
                         !.multibyte_buffer = <<>>,
                         !.is_in_multibyte = FALSE,
                         !.multibytes_expected = 0]
    ELSE [st EXCEPT !.error = [type |-> "ValueError", index |-> index]]

HandleBadData(st, index, character) ==
    IF ~raise_on_unexpected
    THEN [st EXCEPT !.output = Append(st.output \o AsItems(st.multibyte_buffer),
                                      character),
                    !.multibyte_buffer = <<>>,
                    !.is_in_multibyte = FALSE,
                    !.multibytes_expected = 0]
    ELSE [st EXCEPT !.error = [type |-> "ValueError", index |-> index]]

\* lines 381-403: the branch taken for character c at index n
Dispatch(st, n, c) ==
    IF IsPlain(c)
    THEN IF ~st.is_in_multibyte
         THEN [st EXCEPT !.output = Append(st.output, <<c>>)]
         ELSE HandleBadData(st, n, <<c>>)
    ELSE IF IsContinuation(c)
         THEN IF st.is_in_multibyte
              THEN [st EXCEPT !.multibyte_buffer = Append(st.multibyte_buffer, c)]
              ELSE HandleBadData(st, n, <<c>>)
         ELSE IF ~st.is_in_multibyte
              THEN IF st.multibytes_expected # 0 \/ Len(st.multibyte_buffer) # 0
                   THEN \* lines 395-396: the asserts
                        [st EXCEPT !.error = [type |-> "AssertionError", index |-> n]]
                   ELSE [st EXCEPT
                           !.multibytes_expected =
                               CountLeadingOnes(c, st.multibytes_expected),
                           !.multibyte_buffer = Append(st.multibyte_buffer, c),
                           !.is_in_multibyte = TRUE]
              ELSE HandleBadData(st, n, <<c>>)

\* line 405: the sequence is complete
IsCompleteOneMore(st) ==
    st.is_in_multibyte /\ Len(st.multibyte_buffer) = st.multibytes_expected + 1
IsComplete(st) ==
    st.is_in_multibyte /\ Len(st.multibyte_buffer) = st.multibytes_expected

\* lines 405-411: output the utf-8 character if complete
CompleteKeepsExpected(st) ==
    IF st.error.type = "none" /\ IsComplete(st)
    THEN LET utf_8_character == DecodeUtf8(st.multibyte_buffer) IN
         IF utf_8_character = DecodeError
         THEN [st EXCEPT !.error = [type |-> "UnicodeDecodeError", index |-> 0]]
         ELSE [st EXCEPT !.output = Append(st.output, <<utf_8_character>>),
                         !.multibyte_buffer = <<>>,
                         !.is_in_multibyte = FALSE,
                         !.mis_encoded_utf8_present = TRUE]
    ELSE st

Complete(st) ==
    IF st.error.type = "none" /\ IsComplete(st)
    THEN LET utf_8_character == DecodeUtf8(st.multibyte_buffer) IN
         IF utf_8_character = DecodeError
         THEN [st EXCEPT !.error = [type |-> "UnicodeDecodeError", index |-> 0]]
         ELSE [st EXCEPT !.output = Append(st.output, <<utf_8_character>>),
                         !.multibyte_buffer = <<>>,
                         !.is_in_multibyte = FALSE,
                         !.multibytes_expected = 0,
                         !.mis_encoded_utf8_present = TRUE]
    ELSE st

\* "".join(output)
RECURSIVE Join(_)
Join(items) == IF items = <<>> THEN <<>> ELSE Head(items) \o Join(Tail(items))

\* line 416: the pair the call returns
Result == <<mis_encoded_utf8_present, Join(output)>>

Store(st) ==
    /\ output' = st.output
    /\ is_in_multibyte' = st.is_in_multibyte
    /\ multibytes_expected' = st.multibytes_expected
    /\ multibyte_buffer' = st.multibyte_buffer
    /\ mis_encoded_utf8_present' = st.mis_encoded_utf8_present
    /\ error' = st.error

\* lines 380-411: one iteration of the for loop
ProcessChar ==
    /\ pc = "loop"
    /\ idx < Len(input_string)
    /\ LET st == Complete(Dispatch(Locals, idx, input_string[idx + 1])) IN
         /\ Store(st)
         /\ pc' = IF st.error.type = "none" THEN "loop" ELSE "raised"
    /\ idx' = idx + 1
    /\ UNCHANGED <<input_string, raise_on_unexpected, ext_vars>>

\* lines 413-416: left-over data, then return
Finish ==
    /\ pc = "loop"
    /\ idx = Len(input_string)
    /\ LET st == IF multibyte_buffer # <<>>
                 THEN HandleBadData(Locals, Len(input_string), <<>>)
                 ELSE Locals IN
         /\ Store(st)
         /\ pc' = IF st.error.type = "none" THEN "done" ELSE "raised"
    /\ UNCHANGED <<input_string, raise_on_unexpected, idx, ext_vars>>

DecIdle ==
    /\ input_string = <<>>
    /\ raise_on_unexpected = FALSE
    /\ idx = 0
    /\ output = <<>>
    /\ is_in_multibyte = FALSE
    /\ multibytes_expected = 0
    /\ multibyte_buffer = <<>>
    /\ mis_encoded_utf8_present = FALSE
    /\ pc = "idle"
    /\ error = NoError

\* lines 360-366: the state on entry to the for loop
DecInit ==
    /\ input_string \in SeqsUpTo(Alphabet, MaxLen)
    /\ raise_on_unexpected \in BOOLEAN
    /\ idx = 0
    /\ output = <<>>
    /\ is_in_multibyte = FALSE
    /\ multibytes_expected = 0
    /\ multibyte_buffer = <<>>
    /\ mis_encoded_utf8_present = FALSE
    /\ pc = "loop"
    /\ error = NoError

(***************************************************************************)
(* gather_hashes_in_file                                                   *)
(*                                                                         *)
(* A file is its first lines, `padding` further lines that do not match    *)
(* the pattern, and whether its last line ends with a newline.  A line is  *)
(* what the code reads of it: whether regex.search finds a match, the text *)
(* of the first capture group, and whether json.loads accepts the line and *)
(* the object it then yields.  Strings are sequences of code points.       *)
(***************************************************************************)
MaxLines == 2        \* lines of a file that are chosen freely
MaxPadding == 200    \* most non-matching lines that follow them

Separator == <<44, 32>>                                 \* ", "
TokA == <<97, 98, 99, 100, 101, 120, 102, 103, 104, 105, 106>>
TokA2 == <<97, 98, 99, 100, 101, 121, 102, 103, 104, 105, 106>>
TokShort == <<97, 98, 99>>
LongTimestamp == [k \in 1..26 |-> 48 + (k % 10)]

Obj1 == [eventMessage |-> "m1", timestamp |-> LongTimestamp,
         subsystem |-> "s1", category |-> "c1", traceID |-> "t1"]
Obj2 == [eventMessage |-> "m2", timestamp |-> <<50, 48>>]

NoMatchLine == [matches |-> FALSE, group |-> <<>>, json_valid |-> FALSE, json |-> <<>>]
LineChoices ==
    {NoMatchLine,
     [matches |-> TRUE, group |-> TokA, json_valid |-> FALSE, json |-> <<>>],
     [matches |-> TRUE, group |-> TokA \o Separator \o TokShort \o Separator \o TokA2,
      json_valid |-> TRUE, json |-> Obj1],
     [matches |-> TRUE, group |-> TokA2, json_valid |-> TRUE, json |-> Obj2]}

\* lines 571-572: the lines enumerate(data) yields
NumLines(f) == Len(f.lines) + f.padding
Line(f, n) == IF n < Len(f.lines) THEN f.lines[n + 1] ELSE NoMatchLine

\* lines 562-564: _get_line_count counts the newline bytes
LineCount(f) ==
    IF f.final_newline THEN NumLines(f) ELSE Max(NumLines(f) - 1, 0)

\* line 570: int(_get_line_count(file_found) / 100)
Factor(f) == LineCount(f) \div 100

\* lines 143-144: SetProgressBar(n, total) takes two positional arguments,
\* neither with a default; a call binds only when it passes that many
SetProgressBarParams == 2
SetProgressBarBindsAnyCall(nargs) == TRUE
SetProgressBarBinds(nargs) == nargs = SetProgressBarParams

\* line 574: GuiWindow.SetProgressBar(int(i / factor)) passes one argument
ProgressCallArgs == 1

\* line 580: str.split(", ")
StartsWith(s, sep) == Len(s) >= Len(sep) /\ SubSeq(s, 1, Len(sep)) = sep
RECURSIVE Split(_, _, _)
Split(s, sep, cur) ==
    IF s = <<>> THEN <<cur>>
    ELSE IF StartsWith(s, sep)
         THEN <<cur>> \o Split(SubSeq(s, Len(sep) + 1, Len(s)), sep, <<>>)
         ELSE Split(Tail(s), sep, Append(cur, Head(s)))

Tokens(line) == Split(line.group, Separator, <<>>)

\* lines 583-584: hash[:5] and hash[-5:]
TargetStart(hash) == SubSeq(hash, 1, Min(5, Len(hash)))
TargetEnd(hash) == SubSeq(hash, Max(Len(hash) - 4, 1), Len(hash))
KeyOf(hash) == <<TargetStart(hash), TargetEnd(hash)>>

\* dict.get(key, default)
Get(d, key, default) == IF key \in DOMAIN d THEN d[key] ELSE default

\* lines 582-588, 593-594: the record built from the deserialized line
RecordOf(deserialized) ==
    LET ts == Get(deserialized, "timestamp", <<>>) IN
    <<SubSeq(ts, 1, Min(25, Len(ts))),
      "None",
      Get(deserialized, "eventMessage", ""),
      Get(deserialized, "subsystem", ""),
      Get(deserialized, "category", ""),
      Get(deserialized, "traceID", "")>>

\* lines 580-594: the loop over the tokens of a matching line; json.loads
\* runs once per token and raises on a line that is not valid JSON
RECURSIVE ProcessTokens(_, _, _)
ProcessTokens(tokens, line, acc) ==
    IF tokens = <<>> \/ acc.raised THEN acc
    ELSE IF ~line.json_valid
         THEN [acc EXCEPT !.raised = TRUE]
         ELSE LET key == KeyOf(Head(tokens)) IN
              ProcessTokens(
                  Tail(tokens), line,
                  IF key \notin DOMAIN acc.hashes
                  THEN [acc EXCEPT !.hashes = acc.hashes @@ (key :> RecordOf(line.json)),
                                   !.logged = Append(acc.logged, key)]
                  ELSE acc)

ExtError(type, n) == [type |-> type, index |-> n]

\* lines 568-571: the empty mapping, the factor, the file opened
GatherStart ==
    /\ ext_pc = "start"
    /\ factor' = Factor(file_found)
    /\ ext_pc' = "loop"
    /\ UNCHANGED <<file_found, i, target_hashes, progress_args, log_lines,
                   ext_error, dec_vars>>

\* lines 572-594: one iteration of the loop over the lines
GatherLine ==
    /\ ext_pc = "loop"
    /\ i < NumLines(file_found)
    /\ i' = i + 1
    /\ UNCHANGED <<file_found, factor, dec_vars>>
    /\ IF factor = 0
       THEN \* line 573: i % factor
            /\ ext_pc' = "raised"
            /\ ext_error' = ExtError("ZeroDivisionError", i)
            /\ UNCHANGED <<target_hashes, progress_args, log_lines>>
       ELSE LET reports == (i % factor = 0)
                line == Line(file_found, i)
                acc == ProcessTokens(Tokens(line), line,
                                     [hashes |-> target_hashes,
                                      logged |-> log_lines,
                                      raised |-> FALSE])
            IN
            /\ progress_args' = IF reports
                                THEN Append(progress_args, i \div factor)
                                ELSE progress_args
            /\ IF reports /\ ~SetProgressBarBinds(ProgressCallArgs)
               THEN \* line 574: the call does not bind
                    /\ ext_pc' = "raised"
                    /\ ext_error' = ExtError("TypeError", i)
                    /\ UNCHANGED <<target_hashes, log_lines>>
               ELSE \* lines 145-147: a call that binds only sets the GUI widget
                    IF ~line.matches
               THEN \* lines 577-578
                    /\ UNCHANGED <<target_hashes, log_lines, ext_pc, ext_error>>
               ELSE IF acc.raised
               THEN \* line 581: json.loads raises
                    /\ ext_pc' = "raised"
                    /\ ext_error' = ExtError("JSONDecodeError", i)
                    /\ UNCHANGED <<target_hashes, log_lines>>
               ELSE /\ target_hashes' = acc.hashes
                    /\ log_lines' = acc.logged
                    /\ UNCHANGED <<ext_pc, ext_error>>

\* line 595: the lines are exhausted, the mapping is returned
GatherReturn ==
    /\ ext_pc = "loop"
    /\ i = NumLines(file_found)
    /\ ext_pc' = "returned"
    /\ UNCHANGED <<file_found, factor, i, target_hashes, progress_args,
                   log_lines, ext_error, dec_vars>>

\* line 567: the call is entered with a file and a pattern
ExtInit ==
    /\ file_found \in [lines : SeqsUpTo(LineChoices, MaxLines),
                       padding : 0..MaxPadding,
                       final_newline : BOOLEAN]
    /\ NumLines(file_found) = 0 => file_found.final_newline
    /\ factor = 0
    /\ i = 0
    /\ target_hashes = <<>>
    /\ progress_args = <<>>
    /\ log_lines = <<>>
    /\ ext_pc = "start"
    /\ ext_error = NoError


ExtIdle ==
    /\ file_found = [lines |-> <<>>, padding |-> 0, final_newline |-> TRUE]
    /\ factor = 0
    /\ i = 0
    /\ target_hashes = <<>>
    /\ progress_args = <<>>
    /\ log_lines = <<>>
    /\ ext_pc = "idle"
    /\ ext_error = NoError

Init == DecInit /\ ExtIdle

Next == ProcessChar \/ Finish

Spec == Init /\ [][Next]_vars

InitExtract == DecIdle /\ ExtInit

NextExtract == GatherStart \/ GatherLine \/ GatherReturn

SpecExtract == InitExtract /\ [][NextExtract]_vars


(***************************************************************************)
(* Vocabulary of the claims about the decoder, stated on the input alone.  *)
(***************************************************************************)

\* UTF-8 encoding of a Unicode scalar value, as a sequence of byte values
Utf8Bytes(cp) ==
    IF cp < 128 THEN <<cp>>
    ELSE IF cp < 2048 THEN <<192 + (cp \div 64), 128 + (cp % 64)>>
    ELSE IF cp < 65536
         THEN <<224 + (cp \div 4096), 128 + ((cp \div 64) % 64), 128 + (cp % 64)>>
    ELSE <<240 + (cp \div 262144), 128 + ((cp \div 4096) % 64),
           128 + ((cp \div 64) % 64), 128 + (cp % 64)>>

IsScalar(cp) == cp >= 0 /\ cp <= 1114111 /\ ~(cp >= 55296 /\ cp <= 57343)

\* every character replaced by the Latin-1 images of its UTF-8 bytes
RECURSIVE Latin1Utf8(_)
Latin1Utf8(s) ==
    IF s = <<>> THEN <<>> ELSE Utf8Bytes(Head(s)) \o Latin1Utf8(Tail(s))

\* The scalar values whose UTF-8 bytes all lie in Alphabet:
\* A, DEL, U+00C0, U+00E9, U+2000, U+2029, U+2A40, U+2A69,
\* U+100000, U+100029, U+100A40, U+100A69
OrigChars ==
    {cp \in {65, 127, 192, 233, 8192, 8233, 10816, 10857,
             1048576, 1048617, 1051200, 1051241} :
        IsScalar(cp) /\ \A k \in 1..Len(Utf8Bytes(cp)) : Utf8Bytes(cp)[k] \in Alphabet}

\* the original strings whose mis-stored form has exactly n characters
RECURSIVE OriginalsOfLen(_)
OriginalsOfLen(n) ==
    IF n = 0 THEN {<<>>}
    ELSE UNION {{<<cp>> \o o : o \in OriginalsOfLen(n - Len(Utf8Bytes(cp)))} :
                cp \in {c \in OrigChars : Len(Utf8Bytes(c)) <= n}}

HasNonAscii(s) == \E k \in 1..Len(s) : s[k] > 127
AllAscii(s) == \A k \in 1..Len(s) : s[k] <= 127

\* <<mis-stored form, original>> for every original with a non-ASCII character
MisStored ==
    {<<Latin1Utf8(o), o>> :
        o \in {x \in UNION {OriginalsOfLen(n) : n \in 0..MaxLen} : HasNonAscii(x)}}

\* lead and continuation bytes as the UTF-8 format defines them
LeadByte(c) == c >= 192 /\ c <= 244
ContinuationByte(c) == c >= 128 /\ c <= 191
SequenceLength(c) == IF c < 224 THEN 2 ELSE IF c < 240 THEN 3 ELSE 4

\* the lead byte at position p (1-based) is followed by all its continuations
LeadFollowedAt(s, p) ==
    /\ LeadByte(s[p])
    /\ p + SequenceLength(s[p]) - 1 <= Len(s)
    /\ \A k \in (p + 1)..(p + SequenceLength(s[p]) - 1) : ContinuationByte(s[k])

NoLeadFollowed(s) == \A p \in 1..Len(s) : ~LeadFollowedAt(s, p)

\* a lead byte with its continuations is the encoding of a scalar value
ValidSequence(b) ==
    LET cp == CASE Len(b) = 2 -> (b[1] - 192) * 64 + (b[2] - 128)
                [] Len(b) = 3 -> (b[1] - 224) * 4096 + (b[2] - 128) * 64
                                 + (b[3] - 128)
                [] OTHER -> (b[1] - 240) * 262144 + (b[2] - 128) * 4096
                            + (b[3] - 128) * 64 + (b[4] - 128)
    IN IsScalar(cp) /\ Utf8Bytes(cp) = b

\* Where a strict scan of s fails first, from 0-based index k with `need`
\* continuation bytes of the sequence opened at index `open` outstanding:
\* <<"ValueError", index>>, <<"UnicodeDecodeError", 0>> or <<"none", 0>>.
\* With decodeErrors FALSE an undecodable sequence is passed over.
RECURSIVE FirstFailure(_, _, _, _, _)
FirstFailure(s, k, need, open, decodeErrors) ==
    IF k = Len(s)
    THEN IF need > 0 THEN <<"ValueError", Len(s)>> ELSE <<"none", 0>>
    ELSE LET c == s[k + 1] IN
         IF need > 0
         THEN IF ~ContinuationByte(c) THEN <<"ValueError", k>>
              ELSE IF need = 1 /\ decodeErrors
                                /\ ~ValidSequence(SubSeq(s, open + 1, k + 1))
                   THEN <<"UnicodeDecodeError", 0>>
                   ELSE FirstFailure(s, k + 1, need - 1, open, decodeErrors)
         ELSE IF ContinuationByte(c) THEN <<"ValueError", k>>
              ELSE IF LeadByte(c)
                   THEN FirstFailure(s, k + 1, SequenceLength(c) - 1, k, decodeErrors)
                   ELSE FirstFailure(s, k + 1, 0, k, decodeErrors)

(***************************************************************************)
(* Claims about utf8_in_extended_ascii                                     *)
(***************************************************************************)

\* C1: in lenient mode (raise_on_unexpected false) the call never fails: for
\* every input, also one where a lead byte is followed by the right number
\* of continuation bytes, it returns a (flag, text) pair instead of raising
\* (that no character is lost presupposes the return).
C1_LenientNeverRaises ==
    ~raise_on_unexpected => pc # "raised"

\* C5: for the mis-stored form of every original string that has a non-ASCII
\* character, the call returns (true, original).
C5_RoundTrip ==
    \A p \in MisStored :
        input_string = p[1] =>
            /\ pc # "raised"
            /\ pc = "done" => Result = <<TRUE, p[2]>>

C5_Witness ==
    /\ pc = "done"
    /\ \E p \in MisStored :
        /\ input_string = p[1]
        /\ Len(p[2]) >= 2
        /\ ~AllAscii(p[2]) /\ \E k \in 1..Len(p[2]) : p[2][k] <= 127
        /\ Result = <<TRUE, p[2]>>

\* C6: in lenient mode, for every input in which no lead byte is followed by
\* its full number of continuation bytes, the call returns (false, input).
C6_LenientPassThrough ==
    (~raise_on_unexpected /\ NoLeadFollowed(input_string)) =>
        /\ pc # "raised"
        /\ pc = "done" => Result = <<FALSE, input_string>>

C6_Witness ==
    /\ pc = "done"
    /\ ~raise_on_unexpected
    /\ NoLeadFollowed(input_string)
    /\ Len(input_string) >= 3
    /\ ContinuationByte(input_string[1])
    /\ \E k \in 2..(Len(input_string) - 1) : LeadByte(input_string[k])
    /\ LeadByte(input_string[Len(input_string)])
    /\ Result = <<FALSE, input_string>>

\* C7: for every string whose code points are all <= 0x7F, the empty string
\* included, the call returns (false, s) with s unchanged.
C7_AsciiUnchanged ==
    AllAscii(input_string) =>
        /\ pc # "raised"
        /\ pc = "done" => Result = <<FALSE, input_string>>

C7_Witness ==
    /\ pc = "done"
    /\ AllAscii(input_string)
    /\ Len(input_string) >= 2
    /\ \E k \in 1..Len(input_string) : input_string[k] = 127
    /\ Result = <<FALSE, input_string>>

\* C8 as stated: in strict mode the call fails with an error naming the
\* index of the first character that is a non-continuation arriving
\* mid-sequence or a continuation arriving outside a sequence, or
\* len(input) when the input ends with a sequence still open.
C8_StrictIndexAsStated ==
    LET f == FirstFailure(input_string, 0, 0, 0, FALSE) IN
    (raise_on_unexpected /\ pc \in {"done", "raised"} /\ f[1] # "none") =>
        /\ pc = "raised"
        /\ error = [type |-> "ValueError", index |-> f[2]]

\* What the code does in strict mode: it fails at the first of (a) such a
\* character, with a ValueError naming its index, (b) a lead byte with its
\* full number of continuation bytes that is not valid UTF-8, with a
\* UnicodeDecodeError that names no input index, (c) the end of input with
\* a sequence still open, with a ValueError naming len(input); otherwise it
\* returns.
StrictModeOutcome ==
    LET f == FirstFailure(input_string, 0, 0, 0, TRUE) IN
    (raise_on_unexpected /\ pc \in {"done", "raised"}) =>
        /\ pc = "raised" <=> f[1] # "none"
        /\ pc = "raised" => error = [type |-> f[1], index |-> f[2]]

\* the decoder is between two characters, or has left the call
Called == pc \in {"loop", "done", "raised"}

NotMidSequence ==
    /\ multibyte_buffer = <<>>
    /\ ~is_in_multibyte
    /\ multibytes_expected = 0

BufferWithinExpected ==
    /\ Len(multibyte_buffer) <= multibytes_expected
    /\ is_in_multibyte <=> multibytes_expected > 0
    /\ is_in_multibyte <=> multibyte_buffer # <<>>

\* a step taken mid-sequence that adds to the output: a reconstruction
\* completed, or a lenient flush (by a character or at the end of input)
FlushOrReconstruction ==
    /\ pc = "loop" /\ pc' \in {"loop", "done"}
    /\ is_in_multibyte
    /\ Len(output') > Len(output)

\* C12: after every input character is handled, len(multibyte_buffer) <=
\* multibytes_expected, and is_in_multibyte holds iff multibytes_expected > 0
\* iff the buffer is non-empty; after a completed reconstruction or a
\* lenient bad-data flush the buffer is empty, is_in_multibyte is false and
\* multibytes_expected is 0.
C12_DecoderStateInvariant ==
    /\ [](Called => BufferWithinExpected)
    /\ [][FlushOrReconstruction => NotMidSequence']_vars

C12_Witness ==
    /\ pc = "done"
    /\ ~raise_on_unexpected
    /\ mis_encoded_utf8_present
    /\ Len(input_string) >= 3
    /\ LeadByte(input_string[Len(input_string)])
    /\ Len(Join(output)) = Len(input_string) - 1
    /\ NotMidSequence

\* the character the next loop iteration handles
NextChar == input_string[idx + 1]

\* lenient mode, mid-sequence, and the next character cannot continue the
\* open sequence: it is ASCII, above 0xF4, or a lead byte
OffenderArrives ==
    /\ pc = "loop"
    /\ ~raise_on_unexpected
    /\ is_in_multibyte
    /\ idx < Len(input_string)
    /\ ~ContinuationByte(NextChar)

\* lenient mode, not mid-sequence, and the next character is a continuation
StrayContinuationArrives ==
    /\ pc = "loop"
    /\ ~raise_on_unexpected
    /\ ~is_in_multibyte
    /\ idx < Len(input_string)
    /\ ContinuationByte(NextChar)

\* C13: in lenient mode, when a character that cannot continue the open
\* sequence arrives mid-sequence, the buffered characters are appended to
\* the output in their order, then the offending character as a literal,
\* and the state returns to not-mid-sequence; an offending lead byte opens
\* no new sequence, so a continuation byte that follows is a literal too.
C13_LenientBadData ==
    /\ [][OffenderArrives =>
            /\ output' = output
                         \o [k \in 1..Len(multibyte_buffer) |-> <<multibyte_buffer[k]>>]
                         \o << <<NextChar>> >>
            /\ NotMidSequence'
            /\ pc' = "loop"
            /\ UNCHANGED mis_encoded_utf8_present]_vars
    /\ [][StrayContinuationArrives =>
            /\ output' = Append(output, <<NextChar>>)
            /\ NotMidSequence'
            /\ pc' = "loop"
            /\ UNCHANGED mis_encoded_utf8_present]_vars

C13_Witness ==
    /\ pc = "done"
    /\ ~raise_on_unexpected
    /\ Len(input_string) >= 4
    /\ LeadByte(input_string[1])
    /\ ContinuationByte(input_string[2])
    /\ LeadByte(input_string[3])
    /\ SequenceLength(input_string[1]) > 2
    /\ SequenceLength(input_string[3]) = 2
    /\ ContinuationByte(input_string[4])
    /\ output = AsItems(input_string)
    /\ ~mis_encoded_utf8_present

(***************************************************************************)
(* Claims about gather_hashes_in_file                                      *)
(***************************************************************************)
Terminal == ext_pc \in {"returned", "raised"}

LineIndexes(f) == 0..(NumLines(f) - 1)

NoLineMatches(f) == \A n \in LineIndexes(f) : ~Line(f, n).matches

KeysOfLine(line) ==
    IF line.matches
    THEN {KeyOf(Tokens(line)[k]) : k \in 1..Len(Tokens(line))}
    ELSE {}

\* the first line one of whose tokens produces the key
FirstLineWith(f, key) ==
    CHOOSE n \in LineIndexes(f) :
        /\ key \in KeysOfLine(Line(f, n))
        /\ \A m \in 0..(n - 1) : key \notin KeysOfLine(Line(f, m))

BadJsonAt(f, n) == Line(f, n).matches /\ ~Line(f, n).json_valid

\* C2: a file with fewer than 100 lines does not crash the call: the
\* modulo and the division by factor never divide by zero.
C2_NoDivisionByZeroUnder100Lines ==
    (NumLines(file_found) < 100 /\ Terminal) =>
        ext_error.type # "ZeroDivisionError"

\* C3: for every file in which no line matches the pattern, whatever its
\* number of lines, the call returns an empty mapping without raising.
C3_NoMatchReturnsEmpty ==
    (NoLineMatches(file_found) /\ Terminal) =>
        /\ ext_pc = "returned"
        /\ DOMAIN target_hashes = {}

\* C4: first write wins: the call returns, for every key that the tokens
\* of the file's matching lines produce, the record built from the first
\* line that produced it.
C4_FirstWriteWinsReturned ==
    (/\ Terminal
     /\ ~NoLineMatches(file_found)
     /\ \A n \in LineIndexes(file_found) : ~BadJsonAt(file_found, n)) =>
        /\ ext_pc = "returned"
        /\ \A n \in LineIndexes(file_found) :
             \A key \in KeysOfLine(Line(file_found, n)) :
                /\ key \in DOMAIN target_hashes
                /\ target_hashes[key] =
                     RecordOf(Line(file_found, FirstLineWith(file_found, key)).json)

\* C9: when a line matches the pattern but is not valid JSON, the call
\* raises at that line (the first such line) and returns no mapping.
C9_BadJsonRaisesAtThatLine ==
    \A n \in LineIndexes(file_found) :
        (/\ Terminal
         /\ BadJsonAt(file_found, n)
         /\ \A m \in 0..(n - 1) : ~BadJsonAt(file_found, m)) =>
            /\ ext_pc = "raised"
            /\ ext_error.index = n

UpdatesOf(total, fac) ==
    LET reporting == {n \in 0..(total - 1) : n % fac = 0}
        nth(k) == CHOOSE n \in reporting :
                      Cardinality({m \in reporting : m < n}) = k - 1
    IN [k \in 1..Cardinality(reporting) |-> nth(k) \div fac]

\* C11: during the pass a progress update is emitted for line index i
\* exactly when i % factor == 0, with value floor(i / factor); lines with
\* i % factor != 0 emit none.  So a pass over a file whose matching lines
\* are all valid JSON ends with exactly those updates, one for each such
\* line of the file.
C11_UpdateForEveryMultiple ==
    (/\ Terminal
     /\ factor >= 1
     /\ \A n \in LineIndexes(file_found) : ~BadJsonAt(file_found, n)) =>
        progress_args = UpdatesOf(NumLines(file_found), factor)

=============================================================================
